---- MODULE Spec2Model ----
(***************************************************************************)
(* A model of the request-processing pipeline of the Tamil message         *)
(* explainer backend (src/backend/app):                                    *)
(*   - core/rate_limit.py : SlidingWindowRateLimiter.allow                 *)
(*   - api/routes.py      : the guards and the three entry points          *)
(*   - services/explainer.py : explain_message and _safe_parse_response    *)
(*   - services/tts.py, stt.py, file_extract.py : the capabilities         *)
(*                                                                         *)
(* Two specifications share the limiter's operators:                       *)
(*   SpecLimiter : worker threads calling allow(key) concurrently          *)
(*   Spec        : requests served one after another, each passing         *)
(*                 admission, normalisation, guards, explanation and       *)
(*                 speech enrichment                                       *)
(***************************************************************************)
EXTENDS Integers, Sequences, FiniteSets, TLC

(***************************************************************************)
(* Bounds of the model.  The limiter is parametric in max_requests and     *)
(* window_seconds (rate_limit.py:9-11); the deployment passes 5 and 60     *)
(* (config.py:29, routes.py:21).  The model runs it scaled down.           *)
(***************************************************************************)
MaxRequests == 2

WindowSeconds == 2

MaxClock == 4

MaxCalls == 4

Threads == {1, 2}

Keys == {"10.0.0.1", "unknown"}

NoThread == 0

VARIABLES
  clock,    \* time.time(), a non-decreasing wall clock
  lock,     \* SlidingWindowRateLimiter._lock: the holding thread or NoThread
  hits,     \* SlidingWindowRateLimiter._hits: key -> deque of timestamps
  tpc,      \* per thread: position inside allow()
  tkey,     \* per thread: the argument key
  tnow,     \* per thread: the local variable now
  log,      \* completed allow() calls in the order they left the lock
  pc,       \* the position of the request being served
  request_client, \* request.client of that request: its host, or None
  req,      \* the request: entry point, body or form fields, upload
  transcript, \* api_voice_input.transcript
  prompt,   \* the text handed to the guards and to explain_message
  extracted, \* api_file_upload.extracted
  direct,   \* what extract_text_from_pdf returned (None before, or no PDF)
  ocr,      \* api_file_upload.ocr: the outcome of try_pdf_ocr_fallback
            \* (None when it was not called)
  content,  \* explain_message.content: the model's reply (None before)
  calls,    \* the capability calls made for this request, in order
  raised,   \* the exceptions raised while serving this request, in order
  result,   \* what explain_message returned (None before)
  response  \* what the caller receives (None before)

limiterVars == <<clock, lock, hits, tpc, tkey, tnow, log>>

threadVars == <<lock, tpc, tkey, tnow, log>>

requestVars ==
  <<pc, request_client, req, transcript, prompt, extracted, direct, ocr,
    content, calls, raised, result, response>>

vars ==
  <<clock, lock, hits, tpc, tkey, tnow, log,
    pc, request_client, req, transcript, prompt, extracted, direct, ocr,
    content, calls, raised, result, response>>

----------------------------------------------------------------------------
(* rate_limit.py:23-24  while q and q[0] < cutoff: q.popleft()             *)
RECURSIVE Prune(_, _)
Prune(q, cutoff) ==
  IF q # <<>> /\ Head(q) < cutoff THEN Prune(Tail(q), cutoff) ELSE q

(* rate_limit.py:19-22  q = self._hits.get(key); a fresh deque if None     *)
GetOrCreate(h, key) == IF key \in DOMAIN h THEN h[key] ELSE <<>>

(* rate_limit.py:25  the admission test on the pruned deque                *)
Admits(q) == ~(Len(q) >= MaxRequests)

(* mutant: the timestamp is recorded for a rejected call too               *)
QueueAfterAlwaysAppends(h, key, now) ==
  Append(Prune(GetOrCreate(h, key), now - WindowSeconds), now)

(* rate_limit.py:19-28  the body of `with self._lock`: the deque left      *)
(* behind for key                                                          *)
QueueAfter(h, key, now) ==
  LET q == Prune(GetOrCreate(h, key), now - WindowSeconds)
  IN  IF Admits(q) THEN Append(q, now) ELSE q

(* rate_limit.py:25-28  the value allow() returns                          *)
AllowResult(h, key, now) ==
  Admits(Prune(GetOrCreate(h, key), now - WindowSeconds))

(* rate_limit.py:19-28  _hits after the body                               *)
HitsAfter(h, key, now) ==
  [k \in DOMAIN h \cup {key} |->
     IF k = key THEN QueueAfter(h, key, now) ELSE h[k]]

----------------------------------------------------------------------------
(***************************************************************************)
(* Text.  A Python str is a sequence of tokens: "x" one ordinary           *)
(* character, "K" a run of 500 ordinary characters, "SP" a space, "NL" a   *)
(* newline, and one token for each literal the guards and the prompt       *)
(* builder know.  len, strip, join, `in` and count are computed on the     *)
(* tokens as Python computes them on the characters.                       *)
(***************************************************************************)
TokLen(tok) ==
  CASE tok = "x" -> 1
    [] tok = "K" -> 500
    [] tok = "SP" -> 1
    [] tok = "NL" -> 1
    [] tok = "User:" -> 5
    [] tok = "User follow-up question:" -> 24
    [] tok = "You are continuing a conversation about the SAME message." -> 57
    [] tok = "Original message (context):" -> 27
    [] tok = "Conversation so far:" -> 20
    [] tok = "(none)" -> 6

(* len(text)                                                               *)
RECURSIVE StrLen(_)
StrLen(text) ==
  IF text = <<>> THEN 0 ELSE TokLen(Head(text)) + StrLen(Tail(text))

IsSpace(tok) == tok \in {"SP", "NL"}

RECURSIVE LStrip(_)
LStrip(text) ==
  IF text # <<>> /\ IsSpace(Head(text)) THEN LStrip(Tail(text)) ELSE text

RECURSIVE RStrip(_)
RStrip(text) ==
  IF text # <<>> /\ IsSpace(text[Len(text)])
  THEN RStrip(SubSeq(text, 1, Len(text) - 1))
  ELSE text

(* text.strip()                                                            *)
Strip(text) == RStrip(LStrip(text))

(* "\n".join(lines)                                                        *)
RECURSIVE JoinLines(_)
JoinLines(lines) ==
  IF lines = <<>> THEN <<>>
  ELSE IF Len(lines) = 1 THEN Head(lines)
  ELSE Head(lines) \o <<"NL">> \o JoinLines(Tail(lines))

(* config.py:28  max_input_chars                                           *)
MaxInputChars == 2000

(* config.py:30  followup_limit                                            *)
FollowupLimit == 5

(* routes.py:31  the test of _enforce_input_limit                          *)
InputTooLarge(text) == StrLen(text) > MaxInputChars

(* mutant: every text is taken for a follow-up prompt                     *)
HasFollowupMarkerAlways(text) == TRUE

(* routes.py:37  "User follow-up question:" in prompt_text                 *)
HasFollowupMarker(text) ==
  \E i \in DOMAIN text : text[i] = "User follow-up question:"

(* routes.py:40  prompt_text.count("\nUser:")                              *)
UserTurns(text) ==
  Cardinality({i \in DOMAIN text :
                 i < Len(text) /\ text[i] = "NL" /\ text[i + 1] = "User:"})

(* mutant: the limit is compared off by one                                *)
TooManyFollowupsOffByOne(text) ==
  IF ~HasFollowupMarker(text) THEN FALSE
  ELSE UserTurns(text) > FollowupLimit + 2

(* routes.py:37-42  the test of _enforce_followup_limit                    *)
TooManyFollowups(text) ==
  IF ~HasFollowupMarker(text) THEN FALSE
  ELSE UserTurns(text) > FollowupLimit + 1

(* routes.py:97-111  the prompt api_voice_input sends to the guards        *)
ComposePrompt(context_text, history, transcr) ==
  IF context_text # <<>> /\ Strip(context_text) # <<>>
  THEN JoinLines(<<
         <<"You are continuing a conversation about the SAME message.">>,
         <<>>,
         <<"Original message (context):">>,
         Strip(context_text),
         <<>>,
         <<"Conversation so far:">>,
         IF Strip(history) # <<>> THEN Strip(history) ELSE <<"(none)">>,
         <<>>,
         <<"User follow-up question:">>,
         Strip(transcr) >>)
  ELSE transcr

----------------------------------------------------------------------------
(***************************************************************************)
(* Optional values: None is <<>>, a present value v is <<v>>.              *)
(***************************************************************************)
None == <<>>

Some(v) == <<v>>

(***************************************************************************)
(* The explanation model's reply.  A JSON member is absent, a string, null *)
(* or a number; reply_options is absent, null, a dict of members, a        *)
(* non-empty string or an empty list.  The raw content is a sequence of    *)
(* tokens: a code fence ```, white space, a bare word, or the text of one  *)
(* JSON value.                                                             *)
(***************************************************************************)
Absent == [t |-> "absent", s |-> ""]

Str(s) == [t |-> "str", s |-> s]

Null == [t |-> "null", s |-> ""]

Num(s) == [t |-> "num", s |-> s]

Dict(tamil, tanglish, english) ==
  [t |-> "dict", tamil |-> tamil, tanglish |-> tanglish, english |-> english]

NotADict(t) == [t |-> t, tamil |-> Absent, tanglish |-> Absent, english |-> Absent]

Object(explanation, urgency, next_steps, reply_options) ==
  [kind |-> "object", explanation |-> explanation, urgency |-> urgency,
   next_steps |-> next_steps, reply_options |-> reply_options]

Array == [kind |-> "array", explanation |-> Absent, urgency |-> Absent,
          next_steps |-> Absent, reply_options |-> NotADict("absent")]

Fence == [t |-> "fence", v |-> Array]

Ws == [t |-> "ws", v |-> Array]

Word == [t |-> "word", v |-> Array]

Json(v) == [t |-> "json", v |-> v]

RECURSIVE LStripWs(_)
LStripWs(c) == IF c # <<>> /\ Head(c).t = "ws" THEN LStripWs(Tail(c)) ELSE c

RECURSIVE RStripWs(_)
RStripWs(c) ==
  IF c # <<>> /\ c[Len(c)].t = "ws"
  THEN RStripWs(SubSeq(c, 1, Len(c) - 1))
  ELSE c

(* content.strip()                                                         *)
StripWs(c) == RStripWs(LStripWs(c))

RECURSIVE LStripTicks(_)
LStripTicks(c) ==
  IF c # <<>> /\ Head(c).t = "fence" THEN LStripTicks(Tail(c)) ELSE c

RECURSIVE RStripTicks(_)
RStripTicks(c) ==
  IF c # <<>> /\ c[Len(c)].t = "fence"
  THEN RStripTicks(SubSeq(c, 1, Len(c) - 1))
  ELSE c

(* explainer.py:188  text.strip("`")                                       *)
StripTicks(c) == RStripTicks(LStripTicks(c))

(* the text of a token holds a "{": the text of a JSON object              *)
HasBrace(tok) == tok.t = "json" /\ tok.v.kind = "object"

(* mutant: the language header is not skipped                             *)
FirstBraceNotSought(c) == 0

(* explainer.py:190  text.find("{"), 0 for -1                              *)
FirstBrace(c) ==
  IF \E i \in DOMAIN c : HasBrace(c[i])
  THEN CHOOSE i \in DOMAIN c :
         HasBrace(c[i]) /\ \A j \in 1..(i - 1) : ~HasBrace(c[j])
  ELSE 0

(* explainer.py:193  json.loads: one JSON value between optional white     *)
(* space, anything else raises                                             *)
JsonLoads(c) ==
  LET u == StripWs(c)
  IN  IF Len(u) = 1 /\ u[1].t = "json"
      THEN [ok |-> TRUE, val |-> u[1].v]
      ELSE [ok |-> FALSE, val |-> Array]

(* explainer.py:184-193  _safe_parse_response                              *)
SafeParseResponse(reply) ==
  LET text == StripWs(reply)
  IN  IF text # <<>> /\ text[1].t = "fence"
      THEN LET inner == StripTicks(text)
               first_brace == FirstBrace(inner)
           IN  IF first_brace # 0
               THEN JsonLoads(SubSeq(inner, first_brace, Len(inner)))
               ELSE JsonLoads(inner)
      ELSE JsonLoads(text)

(* explainer.py:225-227  str(data.get(key, default))                       *)
StrOfMember(m, default) ==
  CASE m.t = "absent" -> default
    [] m.t = "str" -> m.s
    [] m.t = "null" -> "None"
    [] m.t = "num" -> m.s

(* schemas.py:9  Urgency                                                   *)
Urgencies == {"low", "medium", "high"}

(* schemas.py:17-20  one field of ReplyOptions: a str, "" when not given   *)
ReplyFieldValid(m) == m.t \in {"absent", "str"}

ReplyField(m) == IF m.t = "str" THEN m.s ELSE ""

(* explainer.py:228  ReplyOptions built from data.get("reply_options") or  *)
(* an empty dict: raises for a value neither falsy nor a dict of strings   *)
ReplyOptionsValid(ro) ==
  CASE ro.t \in {"absent", "null", "empty_list"} -> TRUE
    [] ro.t = "dict" -> /\ ReplyFieldValid(ro.tamil)
                        /\ ReplyFieldValid(ro.tanglish)
                        /\ ReplyFieldValid(ro.english)
    [] OTHER -> FALSE

ReplyOptions(ro) ==
  IF ro.t = "dict"
  THEN [tamil |-> ReplyField(ro.tamil), tanglish |-> ReplyField(ro.tanglish),
        english |-> ReplyField(ro.english)]
  ELSE [tamil |-> "", tanglish |-> "", english |-> ""]

(* schemas.py:23-35  ExplainMessageResponse                                *)
ExplainMessageResponse(explanation, urgency, next_steps, reply_options) ==
  [explanation |-> explanation, urgency |-> urgency,
   next_steps |-> next_steps, reply_options |-> reply_options,
   source_text |-> None, tts_audio_base64 |-> None, tts_mime_type |-> None]

(* explainer.py:201-210  the canned reply to a message that is too short   *)
TooShortResponse ==
  ExplainMessageResponse(
    "Idhu romba kuraiyaana thagaval. Please andha message full-a anuppunga.",
    "low", "Message full-a anuppunga. Link/OTP share pannaadheenga.",
    [tamil |-> "", tanglish |-> "", english |-> ""])

(* explainer.py:233-242  the fail-safe reply                               *)
FailSafeResponse ==
  ExplainMessageResponse(
    "Idha parse panna mudiyala. Message konjam clear-a anuppunga.",
    "low", "Message full-a anuppunga. Link/OTP share pannaadheenga.",
    [tamil |-> "", tanglish |-> "", english |-> ""])

(* mutant: the response is built without validating urgency and           *)
(* reply_options                                                           *)
BuildResponseUnvalidated(reply) ==
  LET parsed == SafeParseResponse(reply)
      data == parsed.val
  IN  IF parsed.ok /\ data.kind = "object"
      THEN [ok |-> TRUE,
            body |-> ExplainMessageResponse(
                       StrOfMember(data.explanation, ""),
                       StrOfMember(data.urgency, "low"),
                       StrOfMember(data.next_steps, ""),
                       ReplyOptions(data.reply_options))]
      ELSE [ok |-> FALSE, body |-> FailSafeResponse]

(* explainer.py:223-229  the try block: the parsed reply as a response,    *)
(* ok = FALSE where it raises                                              *)
BuildResponse(reply) ==
  LET parsed == SafeParseResponse(reply)
      data == parsed.val
  IN  IF /\ parsed.ok
         /\ data.kind = "object"
         /\ StrOfMember(data.urgency, "low") \in Urgencies
         /\ ReplyOptionsValid(data.reply_options)
      THEN [ok |-> TRUE,
            body |-> ExplainMessageResponse(
                       StrOfMember(data.explanation, ""),
                       StrOfMember(data.urgency, "low"),
                       StrOfMember(data.next_steps, ""),
                       ReplyOptions(data.reply_options))]
      ELSE [ok |-> FALSE, body |-> FailSafeResponse]

(* explainer.py:221-242  what explain_message returns for the content the  *)
(* model sent                                                              *)
ResponseForContent(reply) ==
  IF BuildResponse(reply).ok
  THEN BuildResponse(reply).body
  ELSE FailSafeResponse

(* explainer.py:200  the pre-check that skips the model                    *)
TooShort(text) == text = <<>> \/ StrLen(Strip(text)) < 3

----------------------------------------------------------------------------
(***************************************************************************)
(* Text extraction (services/file_extract.py, services/stt.py).           *)
(***************************************************************************)
(* "\n\n".join(parts)                                                      *)
RECURSIVE JoinBlank(_)
JoinBlank(parts) ==
  IF parts = <<>> THEN <<>>
  ELSE IF Len(parts) = 1 THEN Head(parts)
  ELSE Head(parts) \o <<"NL", "NL">> \o JoinBlank(Tail(parts))

(* file_extract.py:31-34  the pages whose text is not blank                *)
RECURSIVE NonBlank(_)
NonBlank(pages) ==
  IF pages = <<>> THEN <<>>
  ELSE IF Strip(Head(pages)) # <<>>
       THEN <<Head(pages)>> \o NonBlank(Tail(pages))
       ELSE NonBlank(Tail(pages))

(* file_extract.py:24-35  extract_text_from_pdf on the pages' text layers  *)
ExtractTextFromPdf(pages) == Strip(JoinBlank(NonBlank(pages)))

(* file_extract.py:60-61  each page's OCR text, stripped                   *)
RECURSIVE StripEach(_)
StripEach(pages) ==
  IF pages = <<>> THEN <<>>
  ELSE <<Strip(Head(pages))>> \o StripEach(Tail(pages))

(* file_extract.py:45-65  try_pdf_ocr_fallback: None when pdf2image is     *)
(* missing, when anything raises, and when no page yields text             *)
TryPdfOcrFallback(env, pages) ==
  IF env # "ok" THEN None
  ELSE LET out == Strip(JoinBlank(NonBlank(StripEach(pages))))
       IN  IF out # <<>> THEN Some(out) ELSE None

(* routes.py:146  extracted = ocr or ""                                    *)
OrEmpty(opt) == IF opt = None THEN <<>> ELSE opt[1]

(* routes.py:137-138  str.lower on the declared type and the file name     *)
Lower(str) ==
  CASE str = "Application/PDF" -> "application/pdf"
    [] str = "scan.PDF" -> "scan.pdf"
    [] OTHER -> str

(* routes.py:142  content_type == "application/pdf" or                     *)
(* filename.endswith(".pdf")                                               *)
IsPdf(content_type, filename) ==
  content_type = "application/pdf" \/ filename \in {"scan.pdf"}

(* routes.py:147-149  content_type.startswith("image/") or an image        *)
(* extension                                                               *)
IsImage(content_type, filename) ==
  content_type \in {"image/png"} \/ filename \in {"photo.jpg"}

(* routes.py:142-152  the dispatch of api_file_upload                      *)
FileClass(content_type, filename) ==
  IF IsPdf(Lower(content_type), Lower(filename)) THEN "pdf"
  ELSE IF IsImage(Lower(content_type), Lower(filename)) THEN "image"
  ELSE "unsupported"

(* mutant: the minimum length of explain_message is used for files        *)
UnreadableBelowThree(text) == text = <<>> \/ StrLen(Strip(text)) < 3

(* routes.py:168  not extracted or len(extracted.strip()) < 5              *)
Unreadable(text) == text = <<>> \/ StrLen(Strip(text)) < 5

(* routes.py:170-180  the canned reply to a file without readable text     *)
ClearerFileResponse ==
  ExplainMessageResponse(
    "Indha file-la text edukkave mudiyala. Photo / PDF clear-a irukanum.",
    "low",
    "Clear-a irukura file/screenshot anuppunga. Link/OTP share pannaadheenga.",
    [tamil |-> "", tanglish |-> "", english |-> ""])

(* mutant: every client is counted under one key                          *)
ClientKeyShared(client) == "unknown"

(* routes.py:25  the limiter key of a request                              *)
ClientKey(client) ==
  LET ip == IF client # None THEN client[1] ELSE ""
  IN  IF ip # "" THEN ip ELSE "unknown"

----------------------------------------------------------------------------
(***************************************************************************)
(* The inputs the model draws from.                                        *)
(***************************************************************************)
MaxTurns == 7

Turn == <<"User:", "SP", "x", "NL", "x">>

(* a conversation history of n user turns, each followed by an answer      *)
RECURSIVE HistoryOf(_)
HistoryOf(n) ==
  IF n = 0 THEN <<>>
  ELSE IF n = 1 THEN Turn
  ELSE HistoryOf(n - 1) \o <<"NL">> \o Turn

(* no history, and the histories around the limit of followup_limit + 1    *)
Histories == {HistoryOf(n) : n \in {0} \cup (FollowupLimit..MaxTurns)}

ShortTexts ==
  { <<"x", "x">>,
    <<"SP", "x", "x", "NL">>,
    <<"x", "x", "x">>,
    <<"x", "x", "x", "x">>,
    <<"NL", "x", "x", "x", "x", "x", "SP">> }

LongTexts ==
  { <<"K", "K", "K", "K">>,
    <<"K", "K", "K", "K", "x">>,
    <<"K", "K", "K", "K", "K">> }

BlankTexts == { <<>>, <<"SP", "NL">> }

(* a follow-up prompt as the client composes it for the text entry point,  *)
(* or as a document may contain it                                         *)
FollowupTexts ==
  {ComposePrompt(<<"x", "x", "x">>, h, <<"x", "x", "x">>) : h \in Histories}

(* a text that quotes a conversation of many turns and is no follow-up     *)
(* prompt                                                                  *)
TurnTexts == { <<"x", "NL">> \o HistoryOf(MaxTurns) }

Clients == {None, Some(""), Some("10.0.0.1")}

EmptyRequest ==
  [endpoint |-> "none", text |-> <<>>,
   context_text |-> <<>>, history |-> <<>>,
   data |-> "", content_type |-> "", filename |-> ""]

(* routes.py:56  ExplainMessageRequest: text of at least one character     *)
TextRequests ==
  {[EmptyRequest EXCEPT !.endpoint = "explain-message", !.text = t] :
     t \in ShortTexts \cup LongTexts \cup FollowupTexts \cup TurnTexts}

(* routes.py:79-84  the audio upload and the form fields                   *)
VoiceRequests ==
  {[EmptyRequest EXCEPT !.endpoint = "voice-input", !.data = d,
                        !.context_text = ctx, !.history = h] :
     d \in {"", "bytes"},
     ctx \in {<<>>, <<"SP", "NL">>, <<"x", "x", "x">>},
     h \in Histories}

(* routes.py:129-132  the file upload                                      *)
FileRequests ==
  {[EmptyRequest EXCEPT !.endpoint = "file-upload", !.data = d,
                        !.content_type = ct, !.filename = fn] :
     d \in {"", "bytes"},
     ct \in {"", "application/pdf", "Application/PDF", "image/png", "text/plain"},
     fn \in {"", "scan.PDF", "photo.jpg", "notes.txt"}}

Requests == TextRequests \cup VoiceRequests \cup FileRequests

(* what the transcription capability may return                            *)
Transcripts ==
  { <<>>,
    <<"SP", "x", "x", "NL">>,
    <<"SP", "x", "x", "x", "NL">>,
    <<"K", "K", "K", "K">>,
    <<"K", "K", "K", "K", "x">> }

(* the text layers of a PDF's pages, and what OCR may read from pages or   *)
(* from an image                                                           *)
PageTexts ==
  { <<>>,
    << <<"SP", "NL">> >>,
    << <<"x", "x", "x", "x">> >>,
    << <<"SP", "NL">>, <<"NL", "x", "x", "x", "x", "x", "SP">> >>,
    << <<"x", "x", "x">>, <<"x", "x", "x">> >>,
    << <<"K", "K", "K", "K", "x">> >>,
    << ComposePrompt(<<"x", "x", "x">>, HistoryOf(MaxTurns), <<"x", "x", "x">>) >> }

ImageTexts == {p[1] : p \in {q \in PageTexts : Len(q) = 1}}

ObjLow ==
  Object(Str("ok"), Str("low"), Str("pay"),
         Dict(Str("t"), Absent, Str("e")))

ObjHighEmpty ==
  Object(Str("scam"), Str("high"), Str("ignore"),
         Dict(Str(""), Str(""), Str("")))

ObjHighReply ==
  Object(Str("scam"), Str("high"), Str("ignore"),
         Dict(Absent, Absent, Str("call")))

(* what the explanation model may send back as message.content             *)
ModelContents ==
  { <<>>,
    <<Word>>,
    <<Json(Array)>>,
    <<Json(ObjLow)>>,
    <<Word, Ws, Json(ObjLow)>>,
    <<Fence, Word, Ws, Json(ObjLow), Ws, Fence>>,
    <<Fence, Word, Ws, Json(Array), Ws, Fence>>,
    <<Fence, Ws, Json(ObjHighReply), Ws, Fence>>,
    <<Ws, Fence, Word, Ws, Json(Object(Str("ok"), Str("urgent"), Str("pay"),
                                       NotADict("absent"))), Ws, Fence, Ws>>,
    <<Json(ObjHighEmpty)>>,
    <<Json(ObjHighReply)>>,
    <<Json(Object(Str("scam"), Str("high"), Absent, NotADict("absent")))>>,
    <<Ws, Json(Object(Absent, Absent, Absent, NotADict("empty_list"))), Ws>>,
    <<Json(Object(Num("7"), Str("medium"), Null, NotADict("null")))>>,
    <<Json(Object(Str("ok"), Str("urgent"), Str("pay"), NotADict("absent")))>>,
    <<Json(Object(Str("ok"), Null, Str("pay"), NotADict("absent")))>>,
    <<Json(Object(Str("ok"), Str("low"), Str("pay"), NotADict("str")))>>,
    <<Json(Object(Str("ok"), Str("low"), Str("pay"),
                  Dict(Str("t"), Null, Num("1"))))>> }

----------------------------------------------------------------------------
LimiterInit ==
  /\ clock = 0
  /\ lock = NoThread
  /\ hits = [k \in {} |-> <<>>]
  /\ tpc = [t \in Threads |-> "idle"]
  /\ tkey = [t \in Threads |-> "unknown"]
  /\ tnow = [t \in Threads |-> 0]
  /\ log = <<>>

(* no request is being served                                              *)
RequestInit ==
  /\ pc = "idle"
  /\ request_client = None
  /\ req = EmptyRequest
  /\ transcript = <<>>
  /\ prompt = <<>>
  /\ extracted = <<>>
  /\ direct = None
  /\ ocr = None
  /\ content = None
  /\ calls = <<>>
  /\ raised = <<>>
  /\ result = None
  /\ response = None

Init == LimiterInit /\ RequestInit

(* the wall clock advances on its own, by d seconds                        *)
Advance(d) ==
  /\ clock + d <= MaxClock
  /\ clock' = clock + d
  /\ UNCHANGED <<lock, hits, tpc, tkey, tnow, log>>
  /\ UNCHANGED requestVars

(* rate_limit.py:15-17  allow(key) is entered and reads now, outside the   *)
(* lock                                                                    *)
AllowReadClock(t, key) ==
  /\ tpc[t] = "idle"
  /\ Len(log) + Cardinality({u \in Threads : tpc[u] # "idle"}) < MaxCalls
  /\ tpc' = [tpc EXCEPT ![t] = "waiting"]
  /\ tkey' = [tkey EXCEPT ![t] = key]
  /\ tnow' = [tnow EXCEPT ![t] = clock]
  /\ UNCHANGED <<clock, lock, hits, log>>
  /\ UNCHANGED requestVars

(* rate_limit.py:18  with self._lock: acquire                              *)
AllowAcquire(t) ==
  /\ tpc[t] = "waiting"
  /\ lock = NoThread
  /\ lock' = t
  /\ tpc' = [tpc EXCEPT ![t] = "locked"]
  /\ UNCHANGED <<clock, hits, tkey, tnow, log>>
  /\ UNCHANGED requestVars

(* rate_limit.py:19-28  the body under the lock, the return and the        *)
(* release                                                                 *)
AllowLocked(t) ==
  /\ tpc[t] = "locked"
  /\ lock = t
  /\ hits' = HitsAfter(hits, tkey[t], tnow[t])
  /\ log' = Append(log, [key |-> tkey[t], now |-> tnow[t],
                         ok |-> AllowResult(hits, tkey[t], tnow[t])])
  /\ lock' = NoThread
  /\ tpc' = [tpc EXCEPT ![t] = "idle"]
  /\ tkey' = [tkey EXCEPT ![t] = "unknown"]
  /\ tnow' = [tnow EXCEPT ![t] = 0]
  /\ UNCHANGED clock
  /\ UNCHANGED requestVars

LimiterNext ==
  \/ Advance(1)
  \/ \E t \in Threads, key \in Keys : AllowReadClock(t, key)
  \/ \E t \in Threads : AllowAcquire(t)
  \/ \E t \in Threads : AllowLocked(t)

SpecLimiter == Init /\ [][LimiterNext]_vars

----------------------------------------------------------------------------
(***************************************************************************)
(* Serving one request (api/routes.py).  An exception is a record: an      *)
(* HTTPException carries its status code, any other exception status 0.    *)
(***************************************************************************)
HTTPException(status, detail) == [status |-> status, detail |-> detail]

Exception(kind) == [status |-> 0, detail |-> kind]

(* the response FastAPI sends for an HTTPException that leaves the handler *)
ErrorResponse(e) == Some([status |-> e.status, detail |-> e.detail, body |-> None])

(* the response for a returned ExplainMessageResponse                      *)
OkResponse(body) == Some([status |-> 200, detail |-> "", body |-> Some(body)])

(* an HTTPException raised where nothing catches it                        *)
Abort(e) ==
  /\ raised' = Append(raised, e)
  /\ response' = ErrorResponse(e)
  /\ pc' = "done"

(* an exception e raised inside a try block whose handler raises h         *)
AbortAs(e, h) ==
  /\ raised' = raised \o <<e, h>>
  /\ response' = ErrorResponse(h)
  /\ pc' = "done"

Entry(endpoint) ==
  CASE endpoint = "explain-message" -> "text:guards"
    [] endpoint = "voice-input" -> "voice:read"
    [] endpoint = "file-upload" -> "file:read"

(* routes.py:24-27, 46  a request arrives and the router's dependency      *)
(* _enforce_rate_limit runs allow(ip) before the handler                   *)
EnforceRateLimit(client, r) ==
  /\ pc = "idle"
  /\ request_client' = client
  /\ req' = r
  /\ hits' = HitsAfter(hits, ClientKey(client), clock)
  /\ IF AllowResult(hits, ClientKey(client), clock)
     THEN /\ pc' = Entry(r.endpoint)
          /\ UNCHANGED <<raised, response>>
     ELSE Abort(HTTPException(429, "rate limit"))
  /\ UNCHANGED <<clock, threadVars>>
  /\ UNCHANGED <<transcript, prompt, extracted, content, calls, result>>
  /\ UNCHANGED <<direct, ocr>>

(* mutant: the guards run after the explanation model was called           *)
TextGuardsAfterModel ==
  /\ pc = "text:guards"
  /\ prompt' = req.text
  /\ IF InputTooLarge(req.text)
     THEN /\ calls' = Append(calls, "explain_model")
          /\ Abort(HTTPException(413, "input too large"))
     ELSE IF TooManyFollowups(req.text)
     THEN /\ calls' = Append(calls, "explain_model")
          /\ Abort(HTTPException(400, "too many follow-ups"))
     ELSE pc' = "explain" /\ UNCHANGED <<raised, response, calls>>
  /\ UNCHANGED <<limiterVars, req, transcript, extracted, content, result>>
  /\ UNCHANGED <<direct, ocr, request_client>>

(* routes.py:57-58  api_explain_message: the two guards on payload.text    *)
TextGuards ==
  /\ pc = "text:guards"
  /\ prompt' = req.text
  /\ IF InputTooLarge(req.text)
     THEN Abort(HTTPException(413, "input too large"))
     ELSE IF TooManyFollowups(req.text)
     THEN Abort(HTTPException(400, "too many follow-ups"))
     ELSE pc' = "explain" /\ UNCHANGED <<raised, response>>
  /\ UNCHANGED <<limiterVars, req, transcript, extracted, content, calls, result>>
  /\ UNCHANGED <<direct, ocr, request_client>>

(* mutant: the upload is not tested for emptiness                         *)
VoiceReadUnchecked ==
  /\ pc = "voice:read"
  /\ pc' = "voice:stt"
  /\ UNCHANGED <<raised, response>>
  /\ UNCHANGED <<limiterVars, req, transcript, prompt, extracted, content,
                 calls, result>>
  /\ UNCHANGED <<direct, ocr, request_client>>

(* routes.py:85-87  api_voice_input: the empty upload                      *)
VoiceRead ==
  /\ pc = "voice:read"
  /\ IF req.data = ""
     THEN Abort(HTTPException(400, "empty audio"))
     ELSE pc' = "voice:stt" /\ UNCHANGED <<raised, response>>
  /\ UNCHANGED <<limiterVars, req, transcript, prompt, extracted, content,
                 calls, result>>
  /\ UNCHANGED <<direct, ocr, request_client>>

(* routes.py:89-93, stt.py:9-21  the transcription call: it raises, or     *)
(* returns the stripped text                                               *)
VoiceTranscribe ==
  /\ pc = "voice:stt"
  /\ calls' = Append(calls, "transcribe")
  /\ \/ /\ AbortAs(Exception("transcription"), HTTPException(502, "STT failed"))
        /\ UNCHANGED transcript
     \/ \E raw \in Transcripts :
          /\ transcript' = Strip(raw)
          /\ pc' = "voice:guards"
          /\ UNCHANGED <<raised, response>>
  /\ UNCHANGED <<limiterVars, req, prompt, extracted, content, result>>
  /\ UNCHANGED <<direct, ocr, request_client>>

(* routes.py:95-117  the prompt is composed and the two guards run inside  *)
(* the try block whose handler turns every Exception into a 502            *)
VoiceGuards ==
  /\ pc = "voice:guards"
  /\ prompt' = ComposePrompt(req.context_text, req.history, transcript)
  /\ IF InputTooLarge(prompt')
     THEN AbortAs(HTTPException(413, "input too large"),
                  HTTPException(502, "AI explain failed"))
     ELSE IF TooManyFollowups(prompt')
     THEN AbortAs(HTTPException(400, "too many follow-ups"),
                  HTTPException(502, "AI explain failed"))
     ELSE pc' = "explain" /\ UNCHANGED <<raised, response>>
  /\ UNCHANGED <<limiterVars, req, transcript, extracted, content, calls, result>>
  /\ UNCHANGED <<direct, ocr, request_client>>

(* routes.py:133-135  api_file_upload: the empty upload                    *)
FileRead ==
  /\ pc = "file:read"
  /\ IF req.data = ""
     THEN Abort(HTTPException(400, "empty file"))
     ELSE pc' = "file:extract" /\ UNCHANGED <<raised, response>>
  /\ UNCHANGED <<limiterVars, req, transcript, prompt, extracted, content,
                 calls, result>>
  /\ UNCHANGED <<direct, ocr, request_client>>

(* routes.py:155-163  the detail of the 500 raised for a missing Tesseract *)
TesseractMissingDetail ==
  "File extraction failed: Tesseract is not installed or not in PATH. Install Tesseract OCR, or set BACKEND .env -> TESSERACT_CMD"

(* routes.py:166  f"File extraction failed: {e}"                           *)
ExtractionFailedDetail(e) ==
  CASE e.detail = "pdf" -> "File extraction failed: pdf"
    [] e.detail = "image" -> "File extraction failed: image"
    [] OTHER -> "File extraction failed: "

(* file_extract.py:51-65  what may happen inside try_pdf_ocr_fallback      *)
OcrEnvs == {"no pdf2image", "TesseractNotFoundError", "raises", "ok"}

(* mutant: a missing Tesseract leaves try_pdf_ocr_fallback as an exception *)
ExtractPdfOcrRaises ==
  \/ /\ calls' = Append(calls, "pdf_text")
     /\ AbortAs(Exception("pdf"),
                HTTPException(500, ExtractionFailedDetail(Exception("pdf"))))
     /\ UNCHANGED <<extracted, direct, ocr>>
  \/ \E pages \in PageTexts :
       /\ direct' = Some(ExtractTextFromPdf(pages))
       /\ IF ExtractTextFromPdf(pages) # <<>>
          THEN /\ calls' = Append(calls, "pdf_text")
               /\ extracted' = ExtractTextFromPdf(pages)
               /\ pc' = "file:check"
               /\ UNCHANGED <<ocr, raised, response>>
          ELSE \E env \in OcrEnvs, scans \in PageTexts :
                 /\ calls' = calls \o <<"pdf_text", "pdf_ocr">>
                 /\ ocr' = Some([env |-> env, out |-> TryPdfOcrFallback(env, scans)])
                 /\ IF env = "TesseractNotFoundError"
                    THEN /\ AbortAs(Exception("TesseractNotFoundError"),
                                    HTTPException(500, TesseractMissingDetail))
                         /\ UNCHANGED extracted
                    ELSE /\ extracted' = OrEmpty(TryPdfOcrFallback(env, scans))
                         /\ pc' = "file:check"
                         /\ UNCHANGED <<raised, response>>

(* routes.py:142-146, 164-166  the PDF branch: the text layer, and the OCR *)
(* fallback when it is empty                                               *)
ExtractPdf ==
  \/ /\ calls' = Append(calls, "pdf_text")
     /\ AbortAs(Exception("pdf"),
                HTTPException(500, ExtractionFailedDetail(Exception("pdf"))))
     /\ UNCHANGED <<extracted, direct, ocr>>
  \/ \E pages \in PageTexts :
       /\ direct' = Some(ExtractTextFromPdf(pages))
       /\ IF ExtractTextFromPdf(pages) # <<>>
          THEN /\ calls' = Append(calls, "pdf_text")
               /\ extracted' = ExtractTextFromPdf(pages)
               /\ pc' = "file:check"
               /\ UNCHANGED <<ocr, raised, response>>
          ELSE \E env \in OcrEnvs, scans \in PageTexts :
                 /\ calls' = calls \o <<"pdf_text", "pdf_ocr">>
                 /\ ocr' = Some([env |-> env, out |-> TryPdfOcrFallback(env, scans)])
                 /\ extracted' = OrEmpty(TryPdfOcrFallback(env, scans))
                 /\ pc' = "file:check"
                 /\ UNCHANGED <<raised, response>>

(* mutant: the handler of TesseractNotFoundError is missing                *)
ExtractImageGenericOnly ==
  /\ calls' = Append(calls, "image_ocr")
  /\ UNCHANGED <<direct, ocr, request_client>>
  /\ \/ /\ AbortAs(Exception("TesseractNotFoundError"),
                   HTTPException(500, ExtractionFailedDetail(
                                        Exception("TesseractNotFoundError"))))
        /\ UNCHANGED extracted
     \/ /\ AbortAs(Exception("image"),
                   HTTPException(500, ExtractionFailedDetail(Exception("image"))))
        /\ UNCHANGED extracted
     \/ \E text \in ImageTexts :
          /\ extracted' = Strip(text)
          /\ pc' = "file:check"
          /\ UNCHANGED <<raised, response>>

(* routes.py:147-150, 155-166, file_extract.py:38-42  the image branch     *)
ExtractImage ==
  /\ calls' = Append(calls, "image_ocr")
  /\ UNCHANGED <<direct, ocr, request_client>>
  /\ \/ /\ AbortAs(Exception("TesseractNotFoundError"),
                   HTTPException(500, TesseractMissingDetail))
        /\ UNCHANGED extracted
     \/ /\ AbortAs(Exception("image"),
                   HTTPException(500, ExtractionFailedDetail(Exception("image"))))
        /\ UNCHANGED extracted
     \/ \E text \in ImageTexts :
          /\ extracted' = Strip(text)
          /\ pc' = "file:check"
          /\ UNCHANGED <<raised, response>>

(* mutant: the handler of Exception re-wraps the HTTPException of the      *)
(* unsupported type                                                        *)
FileExtractRewraps ==
  /\ pc = "file:extract"
  /\ LET class == FileClass(req.content_type, req.filename)
     IN  \/ class = "pdf" /\ ExtractPdf
         \/ class = "image" /\ ExtractImage
         \/ /\ class = "unsupported"
            /\ AbortAs(HTTPException(400, "Unsupported file type"),
                       HTTPException(500, ExtractionFailedDetail(
                                            Exception("Unsupported file type"))))
            /\ UNCHANGED <<extracted, calls, direct, ocr>>
  /\ UNCHANGED <<limiterVars, request_client, req, transcript, prompt, content,
                 result>>

(* routes.py:137-166  the dispatch on the declared type and the name       *)
FileExtract ==
  /\ pc = "file:extract"
  /\ LET class == FileClass(req.content_type, req.filename)
     IN  \/ class = "pdf" /\ ExtractPdf
         \/ class = "image" /\ ExtractImage
         \/ /\ class = "unsupported"
            /\ Abort(HTTPException(400, "Unsupported file type"))
            /\ UNCHANGED <<extracted, calls, direct, ocr>>
  /\ UNCHANGED <<limiterVars, request_client, req, transcript, prompt, content,
                 result>>

(* routes.py:168-182  the canned reply for unreadable text, then the       *)
(* length guard                                                            *)
FileCheck ==
  /\ pc = "file:check"
  /\ IF Unreadable(extracted)
     THEN /\ response' = OkResponse(ClearerFileResponse)
          /\ pc' = "done"
          /\ UNCHANGED <<raised, prompt>>
     ELSE /\ prompt' = extracted
          /\ IF InputTooLarge(extracted)
             THEN Abort(HTTPException(413, "input too large"))
             ELSE pc' = "explain" /\ UNCHANGED <<raised, response>>
  /\ UNCHANGED <<limiterVars, req, transcript, extracted, content, calls, result>>
  /\ UNCHANGED <<direct, ocr, request_client>>

(* mutant: a failed model call is tried a second time                     *)
ExplainRetries ==
  /\ pc = "explain"
  /\ IF TooShort(prompt)
     THEN /\ result' = Some(TooShortResponse)
          /\ pc' = "tts"
          /\ UNCHANGED <<calls, content, raised, response>>
     ELSE \/ /\ calls' = Append(calls, "explain_model")
             /\ \E c \in ModelContents :
                  /\ content' = Some(c)
                  /\ result' = Some(ResponseForContent(StripWs(c)))
                  /\ pc' = "tts"
                  /\ UNCHANGED <<raised, response>>
          \/ /\ calls' = calls \o <<"explain_model", "explain_model">>
             /\ raised' = Append(raised, Exception("invocation"))
             /\ \E c \in ModelContents :
                  /\ content' = Some(c)
                  /\ result' = Some(ResponseForContent(StripWs(c)))
                  /\ pc' = "tts"
                  /\ UNCHANGED response
  /\ UNCHANGED <<limiterVars, req, transcript, prompt, extracted>>
  /\ UNCHANGED <<direct, ocr, request_client>>

(* explainer.py:196-242 under routes.py:59-63, 114-117, 183-187            *)
(* explain_message(prompt): the canned reply without a model call, or the  *)
(* model call, which raises (502) or returns content that is parsed        *)
Explain ==
  /\ pc = "explain"
  /\ IF TooShort(prompt)
     THEN /\ result' = Some(TooShortResponse)
          /\ pc' = "tts"
          /\ UNCHANGED <<calls, content, raised, response>>
     ELSE /\ calls' = Append(calls, "explain_model")
          /\ \/ /\ AbortAs(Exception("invocation"),
                           HTTPException(502, "AI explain failed"))
                /\ UNCHANGED <<content, result>>
             \/ \E c \in ModelContents :
                  /\ content' = Some(c)
                  /\ result' = Some(ResponseForContent(StripWs(c)))
                  /\ pc' = "tts"
                  /\ UNCHANGED <<raised, response>>
  /\ UNCHANGED <<limiterVars, req, transcript, prompt, extracted>>
  /\ UNCHANGED <<direct, ocr, request_client>>

(* mutant: every entry point reports the transcript as source_text        *)
SourceTextIsTranscript == transcript

(* routes.py:74, 124, 194  result.source_text                              *)
SourceText ==
  CASE req.endpoint = "explain-message" -> req.text
    [] req.endpoint = "voice-input" -> transcript
    [] req.endpoint = "file-upload" -> extracted

(* mutant: the mime type is not stored                                    *)
WithAudioNoMime(body) == [body EXCEPT !.tts_audio_base64 = Some("base64(mp3)")]

(* routes.py:69-70  the audio fields after a successful synthesis          *)
WithAudio(body) ==
  [body EXCEPT !.tts_audio_base64 = Some("base64(mp3)"),
               !.tts_mime_type = Some("audio/mpeg")]

(* mutant: the mime type is set although synthesis failed                  *)
WithoutAudioButMime(body) == [body EXCEPT !.tts_mime_type = Some("audio/mpeg")]

(* routes.py:71-72  a failed synthesis is logged, the result kept          *)
WithoutAudio(body) == body

(* routes.py:67-75, 118-125, 188-195, tts.py:9-25  speech synthesis on     *)
(* result.explanation, source_text is set and the result returned          *)
Enrich ==
  /\ pc = "tts"
  /\ calls' = Append(calls, "tts")
  /\ \/ /\ response' = OkResponse(
                         [WithAudio(result[1]) EXCEPT !.source_text = Some(SourceText)])
        /\ UNCHANGED raised
     \/ /\ response' = OkResponse(
                         [WithoutAudio(result[1]) EXCEPT !.source_text = Some(SourceText)])
        /\ raised' = Append(raised, Exception("synthesis"))
  /\ pc' = "done"
  /\ UNCHANGED <<limiterVars, req, transcript, prompt, extracted, content, result>>
  /\ UNCHANGED <<direct, ocr, request_client>>

(* the response is sent; the next request may arrive                       *)
Respond ==
  /\ pc = "done"
  /\ pc' = "idle"
  /\ request_client' = None
  /\ req' = EmptyRequest
  /\ transcript' = <<>>
  /\ prompt' = <<>>
  /\ extracted' = <<>>
  /\ direct' = None
  /\ ocr' = None
  /\ content' = None
  /\ calls' = <<>>
  /\ raised' = <<>>
  /\ result' = None
  /\ response' = None
  /\ UNCHANGED limiterVars

Next ==
  \/ pc = "idle" /\ Advance(WindowSeconds + 1)
  \/ \E client \in Clients, r \in Requests : EnforceRateLimit(client, r)
  \/ TextGuards
  \/ VoiceRead
  \/ VoiceTranscribe
  \/ VoiceGuards
  \/ FileRead
  \/ FileExtract
  \/ FileCheck
  \/ Explain
  \/ Enrich
  \/ Respond

Spec == Init /\ [][Next]_vars

----------------------------------------------------------------------------
(* Helpers of the limiter claims: the completed calls of log, and their    *)
(* one-at-a-time execution in non-decreasing order of timestamp.           *)
AdmittedIn(l, key, lo, hi) ==
  {i \in DOMAIN l : l[i].key = key /\ l[i].ok /\ lo <= l[i].now /\ l[i].now <= hi}

RECURSIVE InsertByNow(_, _)
InsertByNow(e, s) ==
  IF s = <<>> THEN <<e>>
  ELSE IF e.now < Head(s).now THEN <<e>> \o s
  ELSE <<Head(s)>> \o InsertByNow(e, Tail(s))

RECURSIVE SortByNow(_)
SortByNow(s) ==
  IF s = <<>> THEN <<>> ELSE InsertByNow(Head(s), SortByNow(Tail(s)))

RECURSIVE SequentialHits(_, _)
SequentialHits(s, h) ==
  IF s = <<>> THEN h
  ELSE SequentialHits(Tail(s), HitsAfter(h, Head(s).key, Head(s).now))

RECURSIVE SequentialLog(_, _)
SequentialLog(s, h) ==
  IF s = <<>> THEN <<>>
  ELSE <<[key |-> Head(s).key, now |-> Head(s).now,
          ok |-> AllowResult(h, Head(s).key, Head(s).now)]>>
       \o SequentialLog(Tail(s), HitsAfter(h, Head(s).key, Head(s).now))

EmptyHits == [k \in {} |-> <<>>]

Quiescent == \A t \in Threads : tpc[t] = "idle"

(* C1: for every key and every interval of length window_seconds, at most  *)
(* max_requests calls of that key with a timestamp in the interval         *)
(* returned true, whatever the interleaving of the callers.                *)
C1_AtMostMaxPerWindow ==
  \A key \in Keys, lo \in 0..MaxClock :
    Cardinality(AdmittedIn(log, key, lo, lo + WindowSeconds)) <= MaxRequests

(* C2: the admission decisions of a key are linearizable: once every call  *)
(* has returned, the results and the timestamp sequences are those of the  *)
(* same calls executed one at a time in non-decreasing timestamp order     *)
(* (calls of one key with one timestamp are interchangeable, so the        *)
(* results are compared per key and timestamp).                            *)
C2_Linearizable ==
  Quiescent =>
    LET seq == SequentialLog(SortByNow(log), EmptyHits)
    IN  /\ \A key \in Keys, v \in 0..MaxClock :
             Cardinality(AdmittedIn(log, key, v, v))
               = Cardinality(AdmittedIn(seq, key, v, v))
        /\ hits = SequentialHits(SortByNow(log), EmptyHits)

(* C3: expired timestamps do not count toward the limit: a call is         *)
(* rejected only if at least max_requests earlier admitted calls of its    *)
(* key have a timestamp that is not older than now - window_seconds.       *)
C3_RejectedOnlyWhenWindowFull ==
  \A i \in DOMAIN log :
    ~log[i].ok =>
      Cardinality({j \in AdmittedIn(log, log[i].key,
                                    log[i].now - WindowSeconds, MaxClock) :
                     j < i}) >= MaxRequests

----------------------------------------------------------------------------
(* Helpers of the pipeline claims.                                         *)
Done == pc = "done"

Called(capability) == \E i \in DOMAIN calls : calls[i] = capability

Raised(e) == \E i \in DOMAIN raised : raised[i] = e

(* a rejection for a policy reason: rate limit, size, follow-ups, type     *)
IsPolicyRejection(e) ==
  \/ e.status \in {429, 413}
  \/ e.status = 400 /\ e.detail \in {"too many follow-ups", "Unsupported file type"}

PolicyRejected == \E i \in DOMAIN raised : IsPolicyRejection(raised[i])

(* a rejection by the length guard or by the follow-up guard               *)
IsGuardRejection(e) ==
  \/ e.status = 413
  \/ e.status = 400 /\ e.detail = "too many follow-ups"

(* explain_message has been entered, or is about to be, with prompt        *)
ExplainInvoked == pc \in {"explain", "tts"} \/ result # None \/ Called("explain_model")

TextTooLong(text) == StrLen(text) > 2000

TooManyTurns(text) ==
  /\ \E i \in DOMAIN text : text[i] = "User follow-up question:"
  /\ UserTurns(text) > 5 + 1

(* C4 as claimed: a policy rejection (rate limit, input too large, too     *)
(* many follow-ups, unsupported type) is raised before any capability call *)
(* of the request, on each of the three entry points.                      *)
C4_RejectedBeforeAnyCapability == PolicyRejected => calls = <<>>

(* C4 as amended: a policy rejection is raised before any explanation-     *)
(* model or speech-synthesis call; a rate-limit or unsupported-type        *)
(* rejection, and every policy rejection on explain-message, is raised     *)
(* before any capability call at all; on voice-input and file-upload the   *)
(* guards are raised after the normalisation call whose output they check, *)
(* and after nothing else.                                                 *)
C4_RejectedBeforeExplanation ==
  PolicyRejected =>
    /\ ~Called("explain_model") /\ ~Called("tts")
    /\ result = None
    /\ ( \/ Raised(HTTPException(429, "rate limit"))
         \/ Raised(HTTPException(400, "Unsupported file type"))
         \/ req.endpoint = "explain-message" ) => calls = <<>>
    /\ req.endpoint = "voice-input" => calls \in {<<>>, <<"transcribe">>}
    /\ req.endpoint = "file-upload" =>
         calls \in {<<>>, <<"pdf_text">>, <<"pdf_text", "pdf_ocr">>, <<"image_ocr">>}

C4_Witness ==
  /\ Done
  /\ req.endpoint = "voice-input"
  /\ Raised(HTTPException(413, "input too large"))
  /\ calls = <<"transcribe">>

(* C5 as claimed: on every entry point explain_message is never invoked on *)
(* a text longer than max_input_chars, nor on a follow-up prompt with more *)
(* than followup_limit + 1 user-turn markers.                              *)
C5_GuardsBeforeExplain ==
  ExplainInvoked => ~TextTooLong(prompt) /\ ~TooManyTurns(prompt)

(* C5 as amended: the length guard runs before explain_message on every    *)
(* entry point, the follow-up guard on explain-message and voice-input     *)
(* only; a request violating a guard that ran ends without explain_message *)
(* being invoked.                                                          *)
C5_GuardsBeforeExplainExceptFileFollowups ==
  /\ ExplainInvoked =>
       /\ ~TextTooLong(prompt)
       /\ req.endpoint # "file-upload" => ~TooManyTurns(prompt)
  /\ (\E i \in DOMAIN raised : IsGuardRejection(raised[i])) =>
       /\ Done /\ result = None /\ ~Called("explain_model")
       /\ response[1].status # 200

C5_Witness ==
  /\ Done
  /\ req.endpoint = "voice-input"
  /\ TooManyTurns(prompt)
  /\ Raised(HTTPException(400, "too many follow-ups"))
  /\ result = None

(* C6: on voice-input a violation of the length guard is reported as 413   *)
(* and one of the follow-up guard as 400, never as the 502 of an           *)
(* explanation-service failure.                                            *)
C6_VoiceGuardStatusReported ==
  \A i \in DOMAIN raised :
    (Done /\ req.endpoint = "voice-input" /\ IsGuardRejection(raised[i])) =>
      response[1].status = raised[i].status

(* C7: a text input whose trimmed length is below 3 gets the canned        *)
(* low-urgency reply and no capability call is made for the request,       *)
(* neither the explanation model nor speech synthesis.                     *)
C7_TooShortNoCapability ==
  ( /\ Done
    /\ req.endpoint = "explain-message"
    /\ StrLen(Strip(req.text)) < 3
    /\ ~Raised(HTTPException(429, "rate limit")) ) =>
      /\ response[1].status = 200
      /\ response[1].body[1].explanation = TooShortResponse.explanation
      /\ response[1].body[1].urgency = "low"
      /\ calls = <<>>

(* the reply cannot be turned into the schema: no JSON value, text before  *)
(* an unfenced value, a value that is no object, an urgency outside        *)
(* low/medium/high, or reply_options that is neither empty nor a dict of   *)
(* strings                                                                 *)
BadMember(m) == m.t \in {"null", "num"}

Malformed(c) ==
  \/ ~\E i \in DOMAIN c : c[i].t = "json"
  \/ c # <<>> /\ c[1].t = "word"
  \/ \E i \in DOMAIN c :
       /\ c[i].t = "json"
       /\ \/ c[i].v.kind # "object"
          \/ c[i].v.urgency.t \in {"null", "num"}
          \/ c[i].v.urgency.t = "str" /\ c[i].v.urgency.s \notin {"low", "medium", "high"}
          \/ c[i].v.reply_options.t = "str"
          \/ /\ c[i].v.reply_options.t = "dict"
             /\ \/ BadMember(c[i].v.reply_options.tamil)
                \/ BadMember(c[i].v.reply_options.tanglish)
                \/ BadMember(c[i].v.reply_options.english)

SameExplanation(a, b) ==
  /\ a.explanation = b.explanation
  /\ a.urgency = b.urgency
  /\ a.next_steps = b.next_steps
  /\ a.reply_options = b.reply_options

(* C8: if the explanation-model call raises, the request fails with 502    *)
(* and no fail-safe Explanation is substituted; if it returns content that *)
(* cannot be turned into the schema, the request succeeds with the         *)
(* fail-safe Explanation, urgency low, and no error is surfaced.           *)
C8_FailureAsymmetry ==
  /\ Raised(Exception("invocation")) =>
       /\ Done /\ result = None
       /\ response[1].status = 502 /\ response[1].body = None
  /\ (content # None /\ Malformed(content[1])) =>
       /\ result = Some(FailSafeResponse)
       /\ result[1].urgency = "low"
       /\ ~\E i \in DOMAIN raised : raised[i].status # 0
       /\ Done => /\ response[1].status = 200
                  /\ SameExplanation(response[1].body[1], FailSafeResponse)

C8_Witness ==
  /\ Done
  /\ content # None /\ Malformed(content[1])
  /\ \E i \in DOMAIN content[1] :
       content[1][i].t = "json" /\ content[1][i].v.urgency = Str("urgent")
  /\ response[1].status = 200

(* C9: when speech synthesis throws, on every entry point the request      *)
(* still succeeds with absent audio fields; whether synthesis succeeds or  *)
(* fails, explanation, urgency, next_steps and reply_options are those the *)
(* explanation engine returned.                                            *)
C9_EnrichmentKeepsExplanation ==
  (Done /\ Called("tts")) =>
    /\ response[1].status = 200
    /\ SameExplanation(response[1].body[1], result[1])
    /\ Raised(Exception("synthesis")) =>
         /\ response[1].body[1].tts_audio_base64 = None
         /\ response[1].body[1].tts_mime_type = None

C9_Witness ==
  /\ Done
  /\ req.endpoint = "file-upload"
  /\ Raised(Exception("synthesis"))
  /\ response[1].status = 200
  /\ response[1].body[1].explanation = "ok"

HasBody == response # None /\ response[1].body # None

(* C10 as claimed: every returned Explanation with urgency high has all    *)
(* three reply_options equal to the empty string, whatever the model sent. *)
C10_HighUrgencyNoReplies ==
  (Done /\ HasBody /\ response[1].body[1].urgency = "high") =>
    response[1].body[1].reply_options = [tamil |-> "", tanglish |-> "", english |-> ""]

----------------------------------------------------------------------------
(* Helpers of the file-upload claims.                                      *)
OnFileUpload == req.endpoint = "file-upload"

TimesCalled(capability) ==
  Cardinality({i \in DOMAIN calls : calls[i] = capability})

(* the extraction stage raised: an exception was turned into a 500         *)
ExtractionRaised == \E i \in DOMAIN raised : raised[i].status = 500

(* C11: for every PDF whose text layer yields no text the OCR fallback is  *)
(* attempted exactly once, and never when the text layer yields text; when *)
(* the fallback's dependency is missing or it raises (a missing Tesseract  *)
(* included) the extracted text is empty and the extraction stage raises   *)
(* nothing; the error of a missing Tesseract is raised on the image path   *)
(* only.                                                                   *)
C11_OcrFallbackOnceAndSilent ==
  /\ (OnFileUpload /\ direct # None) =>
       /\ TimesCalled("pdf_text") = 1
       /\ TimesCalled("pdf_ocr") = (IF direct[1] = <<>> THEN 1 ELSE 0)
       /\ (ocr # None) <=> (direct[1] = <<>>)
       /\ (ocr # None /\ ocr[1].env # "ok") =>
            /\ extracted = <<>>
            /\ ~ExtractionRaised
            /\ pc # "file:extract"
  /\ (\E i \in DOMAIN raised : raised[i].detail = TesseractMissingDetail) =>
       /\ FileClass(req.content_type, req.filename) = "image"
       /\ calls = <<"image_ocr">>

C11_Witness ==
  /\ Done /\ OnFileUpload
  /\ direct = Some(<<>>)
  /\ ocr # None /\ ocr[1].env = "TesseractNotFoundError"
  /\ calls = <<"pdf_text", "pdf_ocr">>
  /\ response # None /\ response[1].status = 200

(* the text of a PDF as the claim states it: the text layer when it has    *)
(* text, else what the OCR fallback returned                               *)
PdfText ==
  IF direct[1] # <<>> THEN direct[1]
  ELSE IF ocr # None /\ ocr[1].out # None THEN ocr[1].out[1] ELSE <<>>

(* C12: for a PDF the text handed to explain_message is the text layer's   *)
(* text when that is not empty and otherwise exactly the text of the OCR   *)
(* fallback, and the returned Explanation carries it as source_text.       *)
C12_PdfTextToExplain ==
  (OnFileUpload /\ direct # None) =>
    /\ ExplainInvoked => prompt = PdfText /\ extracted = PdfText
    /\ (Done /\ result # None) =>
         /\ response[1].status = 200
         /\ response[1].body[1].source_text = Some(PdfText)

C12_Witness ==
  /\ Done /\ OnFileUpload
  /\ direct = Some(<<>>)
  /\ ocr = Some([env |-> "ok", out |-> Some(<<"x", "x", "x", "x", "x">>)])
  /\ Called("explain_model")
  /\ HasBody
  /\ response[1].body[1].source_text = Some(<<"x", "x", "x", "x", "x">>)

(* the length of a text after trimming, counted on its own                 *)
TrimmedLength(text) == StrLen(Strip(text))

(* C13: on file-upload, when extraction raised nothing and the extracted   *)
(* text is empty or shorter than 5 characters after trimming, the reply is *)
(* the canned one (urgency low, empty reply_options, no source_text, no    *)
(* audio) and neither explain_message nor speech synthesis is invoked;     *)
(* explain_message is invoked only for text of trimmed length >= 5.        *)
C13_UnreadableFileCannedReply ==
  OnFileUpload =>
    /\ (Done /\ raised = <<>> /\ TrimmedLength(extracted) < 5) =>
         /\ response[1].status = 200
         /\ response[1].body[1].urgency = "low"
         /\ response[1].body[1].reply_options =
              [tamil |-> "", tanglish |-> "", english |-> ""]
         /\ response[1].body[1].source_text = None
         /\ response[1].body[1].tts_audio_base64 = None
         /\ response[1].body[1].tts_mime_type = None
         /\ response[1].body[1].explanation
              = "Indha file-la text edukkave mudiyala. Photo / PDF clear-a irukanum."
         /\ result = None
         /\ ~Called("explain_model") /\ ~Called("tts")
    /\ ExplainInvoked => TrimmedLength(extracted) >= 5

C13_Witness ==
  /\ Done /\ OnFileUpload
  /\ extracted = <<"x", "x", "x", "x">>
  /\ response[1].status = 200
  /\ response[1].body[1].source_text = None
  /\ calls = <<"image_ocr">>

(* C14: on the image path a missing OCR engine reaches the caller as an    *)
(* error of its own that carries the remediation guidance; every other     *)
(* exception of the extraction gives the generic extraction failure, which *)
(* differs from it.                                                        *)
C14_MissingOcrEngineDistinct ==
  OnFileUpload =>
    /\ Raised(Exception("TesseractNotFoundError")) =>
         /\ Done
         /\ calls = <<"image_ocr">>
         /\ response = Some([status |-> 500, detail |-> TesseractMissingDetail,
                             body |-> None])
    /\ (Raised(Exception("image")) \/ Raised(Exception("pdf"))) =>
         /\ Done
         /\ response[1].status = 500
         /\ response[1].body = None
         /\ response[1].detail \in {"File extraction failed: image",
                                    "File extraction failed: pdf"}
         /\ response[1].detail # TesseractMissingDetail

C14_Witness ==
  /\ Done /\ OnFileUpload
  /\ req.content_type = "image/png"
  /\ raised = <<Exception("TesseractNotFoundError"),
                HTTPException(500, TesseractMissingDetail)>>
  /\ response[1].detail = TesseractMissingDetail

(* the declared type and the file name match neither the PDF class nor the *)
(* image class                                                             *)
NeitherPdfNorImage ==
  /\ req.content_type \in {"", "text/plain"}
  /\ req.filename \in {"", "notes.txt"}

(* C15: an admitted, non-empty upload whose declared type and file name    *)
(* match neither class fails with 400 unsupported type: no extraction,     *)
(* explanation or synthesis call is made and the error is not re-wrapped   *)
(* as a 500 extraction failure.                                            *)
C15_UnsupportedTypeRejected ==
  (OnFileUpload /\ NeitherPdfNorImage /\ req.data # ""
     /\ pc \notin {"file:read", "file:extract"}) =>
    \/ Raised(HTTPException(429, "rate limit"))
    \/ /\ Done
       /\ response = Some([status |-> 400, detail |-> "Unsupported file type",
                           body |-> None])
       /\ raised = <<HTTPException(400, "Unsupported file type")>>
       /\ calls = <<>>
       /\ extracted = <<>> /\ result = None

C15_Witness ==
  /\ Done /\ OnFileUpload
  /\ req.content_type = "text/plain" /\ req.filename = "notes.txt"
  /\ req.data # ""
  /\ response # None /\ response[1].status = 400
  /\ response[1].detail = "Unsupported file type"

(* C16: an empty upload on voice-input or file-upload is rejected with 400 *)
(* before anything is called out to: no transcription, extraction,         *)
(* explanation or synthesis call is made for the request.                  *)
C16_EmptyUploadRejected ==
  (req.endpoint \in {"voice-input", "file-upload"} /\ req.data = "") =>
    /\ calls = <<>>
    /\ pc \in {"voice:read", "file:read", "done"}
    /\ Done =>
         \/ Raised(HTTPException(429, "rate limit"))
         \/ /\ response[1].status = 400
            /\ response[1].body = None
            /\ response[1].detail
                 = (IF OnFileUpload THEN "empty file" ELSE "empty audio")
            /\ Len(raised) = 1

C16_Witness ==
  /\ Done
  /\ req.endpoint = "voice-input" /\ req.data = ""
  /\ response # None /\ response[1].status = 400
  /\ response[1].detail = "empty audio"
  /\ calls = <<>>

----------------------------------------------------------------------------
(* Helpers of the follow-up claim: the marker and the user turns of a text *)
(* counted from its head, and the number of turns a history was built     *)
(* with.                                                                   *)
RECURSIVE CountUserTurns(_)
CountUserTurns(text) ==
  IF Len(text) < 2 THEN 0
  ELSE (IF text[1] = "NL" /\ text[2] = "User:" THEN 1 ELSE 0)
         + CountUserTurns(Tail(text))

RECURSIVE ContainsMarker(_)
ContainsMarker(text) ==
  IF text = <<>> THEN FALSE
  ELSE Head(text) = "User follow-up question:" \/ ContainsMarker(Tail(text))

TurnsOf(history) == CHOOSE n \in 0..(MaxTurns + 1) : HistoryOf(n) = history

TooManyFollowupsRaised == Raised(HTTPException(400, "too many follow-ups"))

(* the follow-up guard of the text or the voice entry point was reached    *)
FollowupGuardRan ==
  /\ req.endpoint \in {"explain-message", "voice-input"}
  /\ pc \in {"explain", "tts", "done"}
  /\ ~Raised(HTTPException(429, "rate limit"))
  /\ ~Raised(HTTPException(400, "empty audio"))
  /\ ~Raised(Exception("transcription"))
  /\ ~Raised(HTTPException(413, "input too large"))

(* C17: the follow-up guard never rejects a text without the follow-up     *)
(* marker and rejects a text with it exactly when the text holds more than *)
(* followup_limit + 1 user-turn markers (on voice-input: when the history  *)
(* holds more than that many turns); so a follow-up prompt that reaches    *)
(* explain_message from explain-message or voice-input has at most         *)
(* followup_limit + 1 of them.                                             *)
C17_FollowupGuardExact ==
  /\ FollowupGuardRan =>
       /\ ~ContainsMarker(prompt) => ~TooManyFollowupsRaised
       /\ ContainsMarker(prompt) =>
            (TooManyFollowupsRaised <=> CountUserTurns(prompt) > 5 + 1)
       /\ (req.endpoint = "voice-input" /\ Strip(req.context_text) # <<>>) =>
            /\ ContainsMarker(prompt)
            /\ TooManyFollowupsRaised <=> TurnsOf(req.history) > 5 + 1
  /\ TooManyFollowupsRaised => FollowupGuardRan /\ Done /\ result = None
  /\ (ExplainInvoked /\ req.endpoint \in {"explain-message", "voice-input"}
        /\ ContainsMarker(prompt)) =>
       CountUserTurns(prompt) <= 5 + 1

C17_Witness ==
  /\ Done
  /\ req.endpoint = "voice-input"
  /\ ContainsMarker(prompt)
  /\ TurnsOf(req.history) = 5 + 1
  /\ ~TooManyFollowupsRaised
  /\ Called("explain_model")

----------------------------------------------------------------------------
(* Helpers of the parser claim.                                            *)
(* content is one JSON object in a code fence: ``` and an optional         *)
(* language word, the object, ```                                          *)
FencedObject(c, obj) ==
  /\ obj.kind = "object"
  /\ c \in { <<Fence, Word, Ws, Json(obj), Ws, Fence>>,
             <<Fence, Ws, Json(obj), Ws, Fence>>,
             <<Fence, Json(obj), Fence>>,
             <<Ws, Fence, Word, Ws, Json(obj), Ws, Fence, Ws>> }

(* C18: a JSON object the model returns inside a code fence gives the same *)
(* Explanation as the same object returned without the fence.              *)
C18_FencedSameAsUnfenced ==
  (content # None /\ result # None) =>
    \A obj \in {ObjLow, ObjHighReply,
                Object(Str("ok"), Str("urgent"), Str("pay"), NotADict("absent"))} :
      FencedObject(content[1], obj) =>
        /\ result = Some(ResponseForContent(<<Json(obj)>>))
        /\ SafeParseResponse(content[1]) = [ok |-> TRUE, val |-> obj]

C18_Witness ==
  /\ Done
  /\ content = Some(<<Fence, Word, Ws, Json(ObjLow), Ws, Fence>>)
  /\ result # None
  /\ result[1].explanation = "ok"
  /\ result[1].reply_options = [tamil |-> "t", tanglish |-> "", english |-> "e"]

----------------------------------------------------------------------------
(* C19: in every returned Explanation tts_audio_base64 and tts_mime_type   *)
(* are both set, and then speech synthesis was called and returned, or     *)
(* both absent, and then it raised or was not called; never one without    *)
(* the other.                                                              *)
C19_AudioBothOrNeither ==
  (Done /\ HasBody) =>
    LET body == response[1].body[1]
    IN  \/ /\ body.tts_audio_base64 # None
           /\ body.tts_mime_type # None
           /\ TimesCalled("tts") = 1
           /\ calls[Len(calls)] = "tts"
           /\ ~Raised(Exception("synthesis"))
        \/ /\ body.tts_audio_base64 = None
           /\ body.tts_mime_type = None
           /\ \/ Raised(Exception("synthesis"))
              \/ ~Called("tts")

C19_Witness ==
  /\ Done /\ HasBody
  /\ req.endpoint = "voice-input"
  /\ Called("explain_model")
  /\ response[1].body[1].tts_audio_base64 = Some("base64(mp3)")
  /\ response[1].body[1].tts_mime_type = Some("audio/mpeg")
  /\ raised = <<>>

----------------------------------------------------------------------------
(* C20: right after any allow(key) call completes, every timestamp kept    *)
(* for key lies within [now - window_seconds, now] of that call and no     *)
(* more than max_requests are kept, concurrent callers included.           *)
C20_RateWindowInvariant ==
  [][\A t \in Threads :
       (tpc[t] = "locked" /\ tpc'[t] = "idle") =>
         LET q == hits'[tkey[t]]
         IN  /\ Len(q) <= MaxRequests
             /\ \A i \in DOMAIN q :
                  tnow[t] - WindowSeconds <= q[i] /\ q[i] <= tnow[t]]_vars

----------------------------------------------------------------------------
(* C21: the timestamps kept for a key are in non-decreasing order in every *)
(* reachable state, also when several threads call allow(key) at once and  *)
(* read their timestamp before they take the lock.                         *)
C21_TimestampsAscending ==
  \A key \in DOMAIN hits :
    \A i \in DOMAIN hits[key] :
      i < Len(hits[key]) => hits[key][i] <= hits[key][i + 1]

(* the completing call of thread t is a step that leaves the lock with a   *)
(* rejection                                                               *)
RejectedBy(t) ==
  /\ tpc[t] = "locked" /\ tpc'[t] = "idle"
  /\ Len(log') = Len(log) + 1
  /\ ~log'[Len(log')].ok

(* C22: a rejected allow(key) call appends no timestamp: the key's deque   *)
(* afterwards is the deque before without a prefix of entries older than   *)
(* now - window_seconds, it still holds max_requests or more entries, and  *)
(* no other key's deque changes.                                           *)
C22_RejectionAppendsNothing ==
  [][\A t \in Threads :
       RejectedBy(t) =>
         LET key == tkey[t]
             old == hits[key]
             new == hits'[key]
         IN  /\ key \in DOMAIN hits
             /\ Len(new) >= MaxRequests
             /\ \E k \in 0..Len(old) :
                  /\ new = SubSeq(old, k + 1, Len(old))
                  /\ \A i \in 1..k : old[i] < tnow[t] - WindowSeconds
             /\ \A other \in DOMAIN hits \ {key} : hits'[other] = hits[other]
             /\ DOMAIN hits' = DOMAIN hits]_vars

(* every call has returned, the last one rejected on a full deque that     *)
(* does not hold its timestamp                                             *)
C22_Witness ==
  /\ Quiescent
  /\ Len(log) >= MaxRequests + 1
  /\ ~log[Len(log)].ok
  /\ Len(hits[log[Len(log)].key]) = MaxRequests
  /\ \A i \in DOMAIN hits[log[Len(log)].key] :
       hits[log[Len(log)].key][i] # log[Len(log)].now

----------------------------------------------------------------------------
Capabilities ==
  {"transcribe", "pdf_text", "pdf_ocr", "image_ocr", "explain_model", "tts"}

(* C23: within one request every capability is invoked at most once; a     *)
(* failed transcription or explanation call ends the request with a 502    *)
(* and no further call, and a failed synthesis call is followed by no      *)
(* further capability call.                                                *)
C23_NoRetries ==
  /\ \A capability \in Capabilities : TimesCalled(capability) <= 1
  /\ Raised(Exception("transcription")) =>
       /\ Done
       /\ calls = <<"transcribe">>
       /\ response[1].status = 502 /\ response[1].body = None
  /\ Raised(Exception("invocation")) =>
       /\ Done
       /\ calls[Len(calls)] = "explain_model"
       /\ response[1].status = 502 /\ response[1].body = None
  /\ Raised(Exception("synthesis")) =>
       /\ Done
       /\ calls[Len(calls)] = "tts"
       /\ response[1].status = 200

C23_Witness ==
  /\ Done
  /\ req.endpoint = "voice-input"
  /\ raised = <<Exception("invocation"), HTTPException(502, "AI explain failed")>>
  /\ calls = <<"transcribe", "explain_model">>
  /\ response[1].status = 502

----------------------------------------------------------------------------
(* Helpers of the admission claim.                                         *)
(* the limiter key the claim gives a client: its host, 'unknown' without   *)
(* one                                                                     *)
KeyOfClient(c) == IF c # None /\ c[1] # "" THEN c[1] ELSE "unknown"

(* the timestamps of q that are not older than now - window_seconds        *)
Live(q, now) == SelectSeq(q, LAMBDA ts : ts >= now - WindowSeconds)

KeptFor(h, key) == IF key \in DOMAIN h THEN h[key] ELSE <<>>

(* C24: a request that passes admission consumes exactly one slot of its   *)
(* client key (the host, or 'unknown'): its timestamp is appended once on  *)
(* arrival, a rejected arrival appends nothing, no later step of the       *)
(* request, whatever its outcome, changes any deque, and an arrival on one *)
(* key changes neither the deque nor the admission result of another key.  *)
C24_OneSlotPerAdmittedRequest ==
  [][/\ (pc = "idle" /\ pc' # "idle") =>
          LET key == KeyOfClient(request_client')
              live == Live(KeptFor(hits, key), clock)
          IN  /\ DOMAIN hits' = DOMAIN hits \cup {key}
              /\ IF pc' # "done"
                 THEN /\ Len(live) < MaxRequests
                      /\ hits'[key] = Append(live, clock)
                 ELSE /\ Len(live) >= MaxRequests
                      /\ hits'[key] = live
                      /\ response' = Some([status |-> 429, detail |-> "rate limit",
                                           body |-> None])
              /\ \A other \in DOMAIN hits \ {key} : hits'[other] = hits[other]
              /\ \A other \in Keys \ {key}, now \in 0..MaxClock :
                   AllowResult(hits', other, now) = AllowResult(hits, other, now)
     /\ (pc # "idle" \/ pc' = "idle") => hits' = hits]_vars

(* a request of 10.0.0.1 that a guard rejected after admission: its slot   *)
(* is kept, next to the slot of another client                             *)
C24_Witness ==
  /\ Done
  /\ request_client = Some("10.0.0.1")
  /\ Raised(HTTPException(413, "input too large"))
  /\ DOMAIN hits = {"10.0.0.1", "unknown"}
  /\ hits["10.0.0.1"] = <<clock, clock>>
  /\ hits["unknown"] = <<clock>>

====
